---------------------------- MODULE Spec2Model ----------------------------
(***************************************************************************)
(* Model of the car4way tariff engine of za-kolik-pojedu:                  *)
(*   - the tariff table parser (load_tariff and its helpers),              *)
(*   - the cost calculator (Tariff::calculate, calculate_for_car,          *)
(*     calculate_for_package, PerMinuteTariff::contains_time / advance),   *)
(*   - the form handlers that feed it (TripInput, Car4wayInput).           *)
(*                                                                         *)
(* Representation.  A jiff civil DateTime is the number of seconds since   *)
(* 00:00:00 of day 0, a civil Time the number of seconds since midnight,   *)
(* a Duration a number of seconds.  Prices and distances (f64 in the code) *)
(* are integers (CZK, km): every value that occurs in the model is exactly *)
(* representable as an f64, so the arithmetic of the code is exact on them.*)
(* Option<T> is a sequence of length 0 (None) or 1 (Some).                 *)
(***************************************************************************)
EXTENDS Integers, Sequences, FiniteSets, TLC

(***************************************************************************)
(* Bounds of the model.                                                    *)
(***************************************************************************)
\* Trip ends are taken on days 0..MaxDays.
MaxDays == 2

(***************************************************************************)
(* Time helpers.                                                           *)
(***************************************************************************)
SecsPerMin == 60
SecsPerHour == 60 * 60
\* Duration::from_secs(24 * 60 * 60)
SecsPerDay == 24 * 60 * 60

\* Time::constant(h, m, s, 0)
TimeConstant(h, m, s) == h * SecsPerHour + m * SecsPerMin + s

\* A civil DateTime on day d at time of day t.
At(d, t) == d * SecsPerDay + t

\* DateTime::time(): the time-of-day part.
TimeOf(dt) == dt % SecsPerDay

\* DateTime::with().time(t).build(): same calendar day, time of day replaced.
WithTime(dt, t) == (dt - TimeOf(dt)) + t

Some(v) == <<v>>
None == <<>>

Min2(a, b) == IF b < a THEN b ELSE a

(***************************************************************************)
(* Enumerations.                                                           *)
(***************************************************************************)
\* enum TariffKind, in declaration order.
TariffKind == <<"Basic", "Active", "Business">>

\* enum CarType, in declaration order (the derived Ord, the EnumIter order).
CarType == <<"Legend", "Fancy", "Boss">>

CarTypes == {CarType[i] : i \in 1..Len(CarType)}

\* The position of a car type in the declaration order (derived Ord).
CarOrd(c) == CHOOSE i \in 1..Len(CarType) : CarType[i] = c

\* CarType::name()
CarName(c) ==
    CASE c = "Legend" -> "Legend (Fabia)"
      [] c = "Fancy"  -> "Fancy (Scala, Karoq, Octavia, Caddy Van)"
      [] c = "Boss"   -> "Boss (Superb, Kodiaq)"


(***************************************************************************)
(* The tariff tables.  provider-data/car4way/{basic,active,business}.tsv   *)
(* are embedded by include_bytes! and are not part of the sources at hand: *)
(* the three tables below follow the row format of the parser and the      *)
(* fixture values of the specification (day 2.00, night 1.00, 5.00 per km, *)
(* a 1 hour + 20 km package for 300.00).  A row is a TariffRow after csv   *)
(* deserialisation: item is the label, with the outcome of the two package *)
(* regexes on it (re, and the captures n and km), and legend, fancy, boss  *)
(* are the Option<f64> cells.  Labels are written without diacritics.      *)
(***************************************************************************)
Item(text) == [text |-> text, re |-> "", n |-> 0, km |-> 0]

\* A label HOUR_PACKAGE_RE / DAY_PACKAGE_RE matches, with its two captures.
PackageItem(text, re, n, km) == [text |-> text, re |-> re, n |-> n, km |-> km]

TariffRow(item, legend, fancy, boss) ==
    [item |-> item, legend |-> legend, fancy |-> fancy, boss |-> boss]

Row3(item, l, f, b) == TariffRow(item, Some(l), Some(f), Some(b))

Row1(item, v) == TariffRow(item, Some(v), None, None)

BASIC ==
    << Row3(Item("Denni: 6:00 - 20:00 Po-Ne"), 2, 2, 3),
       Row3(Item("Nocni: 20:00 - 6:00 Po-Ne"), 1, 1, 2),
       TariffRow(Item("Vyhodne balicky"), None, None, None),
       Row3(PackageItem("1 hodina + 20 km", "hour", 1, 20), 300, 300, 400),
       Row1(Item("Km nad ramec balicku"), 5),
       Row1(Item("Letiste Praha - prijezd"), 100),
       Row1(Item("Letiste Praha - vyjezd"), 100) >>

ACTIVE ==
    << Row3(Item("Denni: 6:00 - 20:00 Po-Ne"), 2, 3, 3),
       Row3(Item("Nocni: 20:00 - 6:00 Po-Ne"), 1, 1, 2),
       TariffRow(Item("Vyhodne balicky"), None, None, None),
       Row3(PackageItem("1 hodina + 20 km", "hour", 1, 20), 170, 170, 250),
       Row3(PackageItem("1 den + 100 km", "day", 1, 100), 900, 1000, 1400),
       Row1(Item("Km nad ramec balicku"), 5),
       Row1(Item("Letiste Praha - prijezd"), 100),
       Row1(Item("Letiste Praha - vyjezd"), 100) >>

BUSINESS ==
    << Row3(Item("Denni: 6:00 - 20:00 Po-Ne"), 3, 2, 2),
       Row3(Item("Nocni: 20:00 - 6:00 Po-Ne"), 2, 1, 1),
       TariffRow(Item("Vyhodne balicky"), None, None, None),
       Row3(PackageItem("3 hodiny + 50 km", "hour", 3, 50), 500, 450, 440),
       Row3(Item("Vikend + 200 km"), 2500, 2400, 2600),
       Row1(Item("Km nad ramec balicku"), 4),
       Row1(Item("Letiste Praha - prijezd"), 90),
       Row1(Item("Letiste Praha - vyjezd"), 90) >>

(***************************************************************************)
(* The tariff table parser.                                                *)
(***************************************************************************)
DAY_START == TimeConstant(6, 0, 0)
NIGHT_START == TimeConstant(20, 0, 0)
WEEKEND_START == TimeConstant(16, 0, 0)
WEEKEND_END == TimeConstant(10, 0, 0)

\* struct PerMinuteTariff
PerMinuteTariff(start, end, per_minute_czk) ==
    [start |-> start, end |-> end, per_minute_czk |-> per_minute_czk]

\* struct Package
Package(name, duration, kilometers, czk, time_limitation) ==
    [name |-> name, duration |-> duration, kilometers |-> kilometers,
     czk |-> czk, time_limitation |-> time_limitation]

\* The three price cells of a row, in the order the extractors visit them.
Cells(row) == [c \in CarTypes |->
    CASE c = "Legend" -> row.legend
      [] c = "Fancy"  -> row.fancy
      [] c = "Boss"   -> row.boss]

\* TariffRow::only(): the single value of the row, None with fewer or more.
Only(row) ==
    LET non_null == {c \in CarTypes : Cells(row)[c] # None}
    IN  IF Cardinality(non_null) = 1
        THEN Cells(row)[CHOOSE c \in non_null : TRUE]
        ELSE None

\* The parser's locals before the first row.
ParserInit ==
    [day_tariff |-> [c \in CarTypes |-> None],
     night_tariff |-> [c \in CarTypes |-> None],
     packages |-> [c \in CarTypes |-> <<>>],
     per_km_czk |-> None,
     airport_enter_czk |-> None,
     airport_leave_czk |-> None,
     error |-> None]

Bail(st, msg) == [st EXCEPT !.error = Some(msg)]

\* extract_minute_tariff: every column must hold a price.
extract_minute_tariff(st, row, field, start, end) ==
    IF \E c \in CarTypes : Cells(row)[c] = None
    THEN Bail(st, <<"All columns should have valid price valid for item", row.item.text>>)
    ELSE [st EXCEPT ![field] =
            [c \in CarTypes |-> Some(PerMinuteTariff(start, end, Cells(row)[c][1]))]]

\* extract_package_inner: one package per car type, appended in row order.
extract_package_inner(st, row, duration, kilometers, time_limitation) ==
    IF \E c \in CarTypes : Cells(row)[c] = None
    THEN Bail(st, <<"All columns should have valid price valid for item", row.item.text>>)
    ELSE [st EXCEPT !.packages =
            [c \in CarTypes |->
                Append(st.packages[c],
                       Package(row.item.text, duration, kilometers,
                               Cells(row)[c][1], time_limitation))]]

\* extract_package: duration = captured count times the unit.
extract_package(st, row, duration_unit) ==
    extract_package_inner(st, row, duration_unit * row.item.n, row.item.km, None)

\* A scalar row (per-km price, airport fees): exactly one value expected.
ExtractScalar(st, row, field, msg) ==
    IF Only(row) = None THEN Bail(st, <<msg, row.item.text>>)
    ELSE [st EXCEPT ![field] = Only(row)]

\* The body of the row loop of load_tariff: first matching label wins.
ParseRow(st, row) ==
    CASE row.item.text = "Denni: 6:00 - 20:00 Po-Ne" ->
            extract_minute_tariff(st, row, "day_tariff", DAY_START, NIGHT_START)
      [] row.item.text = "Nocni: 20:00 - 6:00 Po-Ne" ->
            extract_minute_tariff(st, row, "night_tariff", NIGHT_START, DAY_START)
      [] row.item.text = "Vyhodne balicky" -> st
      [] row.item.re = "hour" -> extract_package(st, row, SecsPerHour)
      [] row.item.re = "day" -> extract_package(st, row, SecsPerDay)
      [] row.item.text = "Vikend + 200 km" ->
            extract_package_inner(st, row, (8 + 24 + 24 + 10) * SecsPerHour, 200,
                Some([from |-> [weekday |-> "Friday", time |-> WEEKEND_START],
                      to |-> [weekday |-> "Monday", time |-> WEEKEND_END]]))
      [] row.item.text = "Km nad ramec balicku" ->
            ExtractScalar(st, row, "per_km_czk", "expected exactly one value for per km price")
      [] row.item.text = "Letiste Praha - prijezd" ->
            ExtractScalar(st, row, "airport_enter_czk", "expected single value for airport entry")
      [] row.item.text = "Letiste Praha - vyjezd" ->
            ExtractScalar(st, row, "airport_leave_czk", "expected single value for airport leave")
      [] OTHER -> Bail(st, <<"The item doesn't match any pattern.", row.item.text>>)

\* The row loop: rows in order, the first error ends it (the ? operator).
RECURSIVE ParseRows(_, _)
ParseRows(st, rows) ==
    IF rows = <<>> \/ st.error # None THEN st
    ELSE ParseRows(ParseRow(st, Head(rows)), Tail(rows))

\* The fields the final Ok(Tariff { .. }) requires, in the order it reads them.
MissingField(st) ==
    IF \E c \in CarTypes : st.day_tariff[c] = None
        THEN Some("no day minute tariff price")
    ELSE IF \E c \in CarTypes : st.night_tariff[c] = None
        THEN Some("no night minute tariff price")
    ELSE IF st.per_km_czk = None THEN Some("per km price not parsed")
    ELSE IF st.airport_enter_czk = None THEN Some("czk to enter airport not parsed")
    ELSE IF st.airport_leave_czk = None THEN Some("czk to leave airport not parsed")
    ELSE None

\* load_tariff: Ok(Tariff) or Err.
load_tariff(kind, data) ==
    LET st == ParseRows(ParserInit, data)
    IN  IF st.error # None THEN [ok |-> FALSE, error |-> st.error[1]]
        ELSE IF MissingField(st) # None THEN [ok |-> FALSE, error |-> MissingField(st)[1]]
        ELSE [ok |-> TRUE,
              tariff |->
                [kind |-> kind,
                 per_cartype |-> [c \in CarTypes |->
                    [per_minute |-> <<st.day_tariff[c][1], st.night_tariff[c][1]>>,
                     packages |-> st.packages[c]]],
                 per_km_czk |-> st.per_km_czk[1],
                 airport_enter_czk |-> st.airport_enter_czk[1],
                 airport_leave_czk |-> st.airport_leave_czk[1]]]

\* The embedded table of each tariff kind.
TariffData(kind) ==
    CASE kind = "Basic" -> BASIC
      [] kind = "Active" -> ACTIVE
      [] kind = "Business" -> BUSINESS

\* load_tariffs / TARIFFS: every kind parsed once; a failure aborts (expect).
TARIFFS == [i \in 1..Len(TariffKind) |-> load_tariff(TariffKind[i], TariffData(TariffKind[i]))]


(***************************************************************************)
(* The cost calculator: pure parts.                                        *)
(***************************************************************************)
\* struct CalculationResult, compared by price only.
CalculationResult(price_czk, details) == [price_czk |-> price_czk, details |-> details]

\* Mutant of MinBy: the fold never replaces its first element.
MinBy_KeepsFirst(x, y) == x

\* Mutant of MinBy: on equal prices the later element wins (as max_by does).
MinBy_LaterOnTie(x, y) == IF y.price_czk <= x.price_czk THEN y ELSE x

\* cmp::min_by as Iterator::min folds with it: the earlier element stays
\* unless the later one is strictly less (Ord for CalculationResult).
MinBy(x, y) == IF y.price_czk < x.price_czk THEN y ELSE x

\* One step of the fold of Iterator::min over Option<accumulator>.
FoldMin(acc, y) == IF acc = None THEN Some(y) ELSE Some(MinBy(acc[1], y))

\* PerMinuteTariff::name()
MinuteTariffName(mt) == <<"minutovy tarif", mt.start, mt.end>>

\* Mutant of contains_time: the wrapping window is not handled.
contains_time_NoWrap(mt, time) == mt.start <= time /\ time < mt.end

\* PerMinuteTariff::contains_time
contains_time(mt, time) ==
    IF mt.start < mt.end
    THEN mt.start <= time /\ time < mt.end
    ELSE mt.start <= time \/ time < mt.end

\* SignedDuration::as_mins(): whole minutes, truncated toward zero.
as_mins(duration) ==
    IF duration >= 0 THEN duration \div SecsPerMin ELSE -((-duration) \div SecsPerMin)

\* Mutant of tariff_end: the boundary is always taken on the next day.
tariff_end_NextDay(mt, cursor) == WithTime(cursor, mt.end) + SecsPerDay

\* Mutant of tariff_end: the boundary is always taken on the cursor's day.
tariff_end_SameDay(mt, cursor) == WithTime(cursor, mt.end)

\* Mutant of tariff_end: the window is also cut at the end of the calendar day.
tariff_end_StopsAtMidnight(mt, cursor) ==
    LET first_possibility == WithTime(cursor, mt.end)
        next_midnight == WithTime(cursor, 0) + SecsPerDay
    IN  Min2(IF cursor < first_possibility THEN first_possibility
             ELSE first_possibility + SecsPerDay,
             next_midnight)

\* The instant at which PerMinuteTariff::advance sees the tariff end.
tariff_end(mt, cursor) ==
    LET first_possibility == WithTime(cursor, mt.end)
    IN  IF cursor < first_possibility THEN first_possibility
        ELSE first_possibility + SecsPerDay

\* Mutant of advance: the price is assigned instead of accumulated.
advance_Overwrites(mt, cursor, price_czk, trip_end) ==
    LET end == Min2(WithTime(cursor, mt.end)
                      + (IF cursor < WithTime(cursor, mt.end) THEN 0 ELSE SecsPerDay),
                    trip_end)
    IN  [cursor |-> end,
         price_czk |-> ((end - cursor) \div SecsPerMin) * mt.per_minute_czk]

\* PerMinuteTariff::advance: the new cursor and the new price.
advance(mt, cursor, price_czk, trip_end) ==
    LET end == Min2(tariff_end(mt, cursor), trip_end)
        duration == end - cursor
    IN  [cursor |-> end,
         price_czk |-> price_czk + as_mins(duration) * mt.per_minute_czk]

\* per_minute.iter().find(|t| t.contains_time(time)): the first match, or None.
FindMinuteTariff(per_minute, time) ==
    LET hits == {i \in 1..Len(per_minute) : contains_time(per_minute[i], time)}
    IN  IF hits = {} THEN None
        ELSE Some(per_minute[CHOOSE i \in hits : \A j \in hits : i <= j])

\* packages.iter().map(Some).chain(Some(None)): option i of a car type.
PackageOption(per_car_tariff, i) ==
    IF i <= Len(per_car_tariff.packages) THEN Some(per_car_tariff.packages[i]) ELSE None

NumOptions(per_car_tariff) == Len(per_car_tariff.packages) + 1

\* calculate_for_package, its locals at the start.
CalcStart(input_data, car_type) ==
    [cursor |-> input_data.begin,
     remaining_km |-> input_data.km,
     price_czk |-> 0,
     name_parts |-> << <<"car", CarName(car_type)>> >>]

\* max of f64::max(0.0)
Max0(x) == IF x > 0 THEN x ELSE 0

\* Mutant of CalcPackage: the cursor is not moved past the package.
CalcPackage_NoAdvance(c, package) ==
    IF package = None THEN c
    ELSE [cursor |-> c.cursor,
          remaining_km |-> Max0(c.remaining_km - package[1].kilometers),
          price_czk |-> c.price_czk + package[1].czk,
          name_parts |-> Append(c.name_parts, <<"package", package[1].name>>)]

\* Mutant of CalcPackage: remaining_km is not floored at zero.
CalcPackage_NoClamp(c, package) ==
    IF package = None THEN c
    ELSE [cursor |-> c.cursor + package[1].duration,
          remaining_km |-> c.remaining_km - package[1].kilometers,
          price_czk |-> c.price_czk + package[1].czk,
          name_parts |-> Append(c.name_parts, <<"package", package[1].name>>)]

\* calculate_for_package, the package block.
CalcPackage(c, package) ==
    IF package = None THEN c
    ELSE [cursor |-> c.cursor + package[1].duration,
          remaining_km |-> Max0(c.remaining_km - package[1].kilometers),
          price_czk |-> c.price_czk + package[1].czk,
          name_parts |-> Append(c.name_parts, <<"package", package[1].name>>)]

\* calculate_for_package, one iteration of the per-minute loop
\* (the minute tariff is there: see MinuteTariffFound).
CalcLoopBody(c, per_minute, trip_end) ==
    LET minute_tariff == FindMinuteTariff(per_minute, TimeOf(c.cursor))[1]
        adv == advance(minute_tariff, c.cursor, c.price_czk, trip_end)
    IN  [c EXCEPT !.cursor = adv.cursor,
                  !.price_czk = adv.price_czk,
                  !.name_parts = Append(c.name_parts, MinuteTariffName(minute_tariff))]

\* Mutant of CalcOverage: the test is remaining_km >= 0.
CalcOverage_NotNegative(c, per_km_czk) ==
    IF c.remaining_km >= 0
    THEN [c EXCEPT !.price_czk = c.price_czk + c.remaining_km * per_km_czk,
                   !.name_parts = Append(c.name_parts, <<"extra za km">>)]
    ELSE c

\* calculate_for_package, the extra kilometres and the result.
CalcOverage(c, per_km_czk) ==
    IF c.remaining_km > 0
    THEN [c EXCEPT !.price_czk = c.price_czk + c.remaining_km * per_km_czk,
                   !.name_parts = Append(c.name_parts, <<"extra za km">>)]
    ELSE c

\* The while loop of calculate_for_package run to its end.
RECURSIVE CalcLoop(_, _, _)
CalcLoop(c, per_minute, trip_end) ==
    IF c.cursor < trip_end
    THEN CalcLoop(CalcLoopBody(c, per_minute, trip_end), per_minute, trip_end)
    ELSE c

\* Tariff::calculate_for_package as a function of its arguments.
calculate_for_package(tariff, input_data, car_type, per_minute, package) ==
    LET c == CalcOverage(
                CalcLoop(CalcPackage(CalcStart(input_data, car_type), package),
                         per_minute, input_data.end),
                tariff.per_km_czk)
    IN  CalculationResult(c.price_czk, c.name_parts)


(***************************************************************************)
(* Inputs of the model: the values the form fields take.                   *)
(***************************************************************************)
\* Kilometres typed into the form (10.0 is what TripInputData::new sets).
KmValues == {0, 10, 15, 25}

\* Trip begins, all on day 0: inside the night window after midnight, on
\* the 06:00 boundary, inside the day window, shortly before the 20:00
\* boundary (on a whole minute and off it), on that boundary, and inside
\* the night window before midnight.
BeginValues ==
    {At(0, TimeConstant(2, 0, 0)), At(0, DAY_START), At(0, TimeConstant(9, 0, 0)),
     At(0, TimeConstant(19, 50, 0)), At(0, TimeConstant(19, 59, 30)),
     At(0, NIGHT_START), At(0, TimeConstant(23, 30, 0))}

\* Times of day of trip ends, on and off whole minutes and window boundaries.
EndTimes ==
    {DAY_START, TimeConstant(6, 0, 30), TimeConstant(9, 0, 0), TimeConstant(9, 30, 0),
     NIGHT_START, TimeConstant(20, 0, 45), TimeConstant(20, 10, 0)}

EndValues == {At(d, t) : d \in 0..MaxDays, t \in EndTimes}

(***************************************************************************)
(* State.                                                                  *)
(***************************************************************************)
VARIABLES
    car4way,       \* Signal<Car4way>: [tariff, car_types]
    input_data,    \* Signal<TripInputData>: [km, begin, end]
    pc,            \* where the rendering / the calculation stands
    cars_left,     \* Tariff::calculate: car types the iterator has not yielded yet
    car_type,      \* calculate_for_car: the car type at hand
    option,        \* calculate_for_car: index of the package option at hand
    calc,          \* calculate_for_package: cursor, remaining_km, price_czk, name_parts
    segments,      \* history: the calls of advance of this evaluation
    best_package,  \* calculate_for_car: accumulator of results.min()
    best_car,      \* Tariff::calculate: accumulator of results.min()
    result,        \* what Car4way::calculate returned to the renderer
    probe          \* the parser and window lookup exercised on their own (SpecParse)

vars == <<car4way, input_data, pc, cars_left, car_type, option, calc, segments,
          best_package, best_car, result, probe>>

NoCalc == [cursor |-> 0, remaining_km |-> 0, price_czk |-> 0, name_parts |-> <<>>]

\* The locals of a calculation that is not running.
CalcIdle ==
    /\ cars_left' = <<>>
    /\ car_type' = ""
    /\ option' = 0
    /\ calc' = NoCalc
    /\ segments' = <<>>
    /\ best_package' = None
    /\ best_car' = None
    /\ result' = None

\* TARIFFS.iter().find(|t| t.kind == self.tariff)
TheTariff == TARIFFS[CHOOSE i \in 1..Len(TariffKind) : TariffKind[i] = car4way.tariff].tariff

PerCarTariff == TheTariff.per_cartype[car_type]

\* BTreeSet<CarType>::iter(): ascending in the derived order.
BTreeIter(set) == SelectSeq(CarType, LAMBDA c : c \in set)

\* Car4way::default(), TripInputData::new() (now rounded up to 5 minutes,
\* end one hour later), and the first rendering pending.
Init ==
    /\ car4way = [tariff |-> TariffKind[1], car_types |-> CarTypes]
    /\ \E b \in {x \in BeginValues : x % (5 * SecsPerMin) = 0} :
          input_data = [km |-> 10, begin |-> b, end |-> b + SecsPerHour]
    /\ pc = "render"
    /\ cars_left = <<>>
    /\ car_type = ""
    /\ option = 0
    /\ calc = NoCalc
    /\ segments = <<>>
    /\ best_package = None
    /\ best_car = None
    /\ result = None
    /\ probe = None

(***************************************************************************)
(* The form handlers.  Each write to a signal schedules a rendering, and   *)
(* ProviderSection calculates on every rendering.                          *)
(***************************************************************************)
\* TripInput: km_changed
km_changed ==
    /\ pc = "done"
    /\ \E v \in KmValues : input_data' = [input_data EXCEPT !.km = v]
    /\ pc' = "render"
    /\ CalcIdle
    /\ UNCHANGED <<car4way, probe>>

\* TripInput: begin_changed
begin_changed ==
    /\ pc = "done"
    /\ \E v \in BeginValues : input_data' = [input_data EXCEPT !.begin = v]
    /\ pc' = "render"
    /\ CalcIdle
    /\ UNCHANGED <<car4way, probe>>

\* TripInput: end_changed
end_changed ==
    /\ pc = "done"
    /\ \E v \in EndValues : input_data' = [input_data EXCEPT !.end = v]
    /\ pc' = "render"
    /\ CalcIdle
    /\ UNCHANGED <<car4way, probe>>

\* Car4wayInput: tariff_changed
tariff_changed ==
    /\ pc = "done"
    /\ \E i \in 1..Len(TariffKind) : car4way' = [car4way EXCEPT !.tariff = TariffKind[i]]
    /\ pc' = "render"
    /\ CalcIdle
    /\ UNCHANGED <<input_data, probe>>

\* Car4wayInput: car_type_changed
car_type_changed ==
    /\ pc = "done"
    /\ \E c \in CarTypes, checked \in BOOLEAN :
          car4way' = [car4way EXCEPT !.car_types =
                        IF checked THEN @ \cup {c} ELSE @ \ {c}]
    /\ pc' = "render"
    /\ CalcIdle
    /\ UNCHANGED <<input_data, probe>>

(***************************************************************************)
(* The calculation, step by step.                                          *)
(***************************************************************************)
\* Car4way::calculate and Tariff::calculate up to the first car type;
\* results.min() of no car type is None and the expect panics.
Calculate ==
    /\ pc = "render"
    /\ IF car4way.car_types = {}
       THEN /\ pc' = "panic"
            /\ UNCHANGED <<cars_left, car_type, option, calc>>
       ELSE /\ pc' = "package"
            /\ car_type' = Head(BTreeIter(car4way.car_types))
            /\ cars_left' = Tail(BTreeIter(car4way.car_types))
            /\ option' = 1
            /\ calc' = CalcStart(input_data, Head(BTreeIter(car4way.car_types)))
    /\ UNCHANGED <<car4way, input_data, segments, best_package, best_car, result, probe>>

\* calculate_for_package: the package block.
ApplyPackage ==
    /\ pc = "package"
    /\ calc' = CalcPackage(calc, PackageOption(PerCarTariff, option))
    /\ pc' = "loop"
    /\ UNCHANGED <<car4way, input_data, cars_left, car_type, option, segments,
                   best_package, best_car, result, probe>>

\* calculate_for_package: one iteration of the while loop.
ConsumeMinuteRate ==
    /\ pc = "loop"
    /\ calc.cursor < input_data.end
    /\ IF FindMinuteTariff(PerCarTariff.per_minute, TimeOf(calc.cursor)) = None
       THEN /\ pc' = "panic"
            /\ UNCHANGED <<calc, segments>>
       ELSE /\ pc' = "loop"
            /\ calc' = CalcLoopBody(calc, PerCarTariff.per_minute, input_data.end)
            /\ segments' = Append(segments,
                 [from |-> calc.cursor,
                  to |-> calc'.cursor,
                  tariff |-> FindMinuteTariff(PerCarTariff.per_minute, TimeOf(calc.cursor))[1],
                  czk |-> calc'.price_czk - calc.price_czk])
    /\ UNCHANGED <<car4way, input_data, cars_left, car_type, option,
                   best_package, best_car, result, probe>>

\* calculate_for_package: the loop is over, extra kilometres, return.
ApplyOverage ==
    /\ pc = "loop"
    /\ ~(calc.cursor < input_data.end)
    /\ calc' = CalcOverage(calc, TheTariff.per_km_czk)
    /\ pc' = "returned"
    /\ UNCHANGED <<car4way, input_data, cars_left, car_type, option, segments,
                   best_package, best_car, result, probe>>

\* The result calculate_for_package returns in state "returned".
Returned == CalculationResult(calc.price_czk, calc.name_parts)

\* The folds of the two min(): the result joins the minimum of its car
\* type; after the last option that minimum joins the minimum over the car
\* types; after the last car type Tariff::calculate returns.
NextOption ==
    /\ pc = "returned"
    /\ segments' = <<>>
    /\ IF option < NumOptions(PerCarTariff)
       THEN /\ best_package' = FoldMin(best_package, Returned)
            /\ option' = option + 1
            /\ calc' = CalcStart(input_data, car_type)
            /\ pc' = "package"
            /\ UNCHANGED <<cars_left, car_type, best_car, result>>
       ELSE /\ best_package' = None
            /\ best_car' = FoldMin(best_car, FoldMin(best_package, Returned)[1])
            /\ IF cars_left # <<>>
               THEN /\ car_type' = Head(cars_left)
                    /\ cars_left' = Tail(cars_left)
                    /\ option' = 1
                    /\ calc' = CalcStart(input_data, Head(cars_left))
                    /\ pc' = "package"
                    /\ UNCHANGED result
               ELSE /\ result' = best_car'
                    /\ pc' = "done"
                    /\ UNCHANGED <<cars_left, car_type, option, calc>>
    /\ UNCHANGED <<car4way, input_data, probe>>

Next ==
    \/ km_changed
    \/ begin_changed
    \/ end_changed
    \/ tariff_changed
    \/ car_type_changed
    \/ Calculate
    \/ ApplyPackage
    \/ ConsumeMinuteRate
    \/ ApplyOverage
    \/ NextOption

Spec == Init /\ [][Next]_vars


(***************************************************************************)
(* The parser and the window lookup on their own: a table (one of the      *)
(* three, whole or with one row left out) is parsed, and the windows of a  *)
(* parsed tariff are asked for a time of day.                              *)
(***************************************************************************)
\* A table without its i-th row (the whole table for i = 0).
DropRow(data, i) == SelectSeq([j \in 1..Len(data) |-> <<j, data[j]>>], LAMBDA r : r[1] # i)

Rows(indexed) == [j \in 1..Len(indexed) |-> indexed[j][2]]

\* Times of day asked for: every whole minute, and the seconds around
\* midnight and around the two window boundaries.
ProbeTimes ==
    {m * SecsPerMin : m \in 0..(24 * 60 - 1)}
    \cup {t \in {b + d : b \in {0, DAY_START, NIGHT_START, SecsPerDay}, d \in {-1, 0, 1}} :
            0 <= t /\ t < SecsPerDay}

InitParse ==
    /\ car4way = [tariff |-> TariffKind[1], car_types |-> CarTypes]
    /\ input_data = [km |-> 10, begin |-> 0, end |-> SecsPerHour]
    /\ pc = "load"
    /\ cars_left = <<>>
    /\ car_type = ""
    /\ option = 0
    /\ calc = NoCalc
    /\ segments = <<>>
    /\ best_package = None
    /\ best_car = None
    /\ result = None
    /\ probe = None

\* load_tariff on a table.
LoadTariff ==
    /\ pc = "load"
    /\ \E i \in 1..Len(TariffKind) :
         \E drop \in 0..Len(TariffData(TariffKind[i])) :
            probe' = [loaded |-> load_tariff(TariffKind[i],
                                    Rows(DropRow(TariffData(TariffKind[i]), drop))),
                      car_type |-> "", time |-> 0, hits |-> {}, found |-> None]
    /\ pc' = "loaded"
    /\ UNCHANGED <<car4way, input_data, cars_left, car_type, option, calc, segments,
                   best_package, best_car, result>>

\* The lookup of the calculator loop on a parsed tariff, for one car type
\* and one time of day: the windows that contain it, and the one find returns.
ProbeTime ==
    /\ pc = "loaded"
    /\ probe.loaded.ok
    /\ \E c \in CarTypes, t \in ProbeTimes :
         LET per_minute == probe.loaded.tariff.per_cartype[c].per_minute
         IN  probe' = [probe EXCEPT
                !.car_type = c,
                !.time = t,
                !.hits = {k \in 1..Len(per_minute) : contains_time(per_minute[k], t)},
                !.found = FindMinuteTariff(per_minute, t)]
    /\ pc' = "probed"
    /\ UNCHANGED <<car4way, input_data, cars_left, car_type, option, calc, segments,
                   best_package, best_car, result>>

NextParse ==
    \/ LoadTariff
    \/ ProbeTime

SpecParse == InitParse /\ [][NextParse]_vars

(***************************************************************************)
(* Properties.                                                             *)
(***************************************************************************)
\* The per-minute tariffs and the options of a car type in the tariff at hand.
PerMinuteOf(c) == TheTariff.per_cartype[c].per_minute

OptionsOf(c) == 1..NumOptions(TheTariff.per_cartype[c])

\* calculate_for_package for car type c and its i-th option, trip ending at e.
PairResult(c, i, e) ==
    calculate_for_package(TheTariff, [input_data EXCEPT !.end = e], c, PerMinuteOf(c),
                          PackageOption(TheTariff.per_cartype[c], i))

PairPrice(c, i) == PairResult(c, i, input_data.end).price_czk

\* The prices of all pairs (eligible car type, option).
AllPrices == UNION {{PairPrice(c, i) : i \in OptionsOf(c)} : c \in car4way.car_types}

\* C1: the price Tariff::calculate returns for a non-empty set of car types
\* is the minimum of calculate_for_package over all pairs (eligible car type,
\* option), the options being the packages of the car type and no package:
\* it is the price of one of the pairs and no pair is strictly cheaper.
Thm_C1_CalculateIsMinimum ==
    (pc = "done") =>
        /\ car4way.car_types # {}
        /\ Len(result) = 1
        /\ result[1].price_czk \in AllPrices
        /\ \A p \in AllPrices : result[1].price_czk <= p

\* C1 witness: a calculation over several car types returns a minimum that
\* is neither the first pair's price nor the price of every pair.
Wit_C1_MinimumNotFirst ==
    /\ pc = "done"
    /\ car4way.car_types = CarTypes
    /\ result[1].price_czk < PairPrice("Legend", 1)
    /\ result[1].details[1] = <<"car", CarName("Boss")>>

\* The start of the per-minute loop: trip begin, plus the package duration.
LoopStart == CalcPackage(CalcStart(input_data, car_type),
                         PackageOption(PerCarTariff, option)).cursor

InEvaluation == pc \in {"package", "loop", "returned"}

\* The name parts of the kinds a breakdown can hold.
IsPackagePart(part) == Len(part) = 2 /\ part[1] = "package"

IsMinutePart(part) == Len(part) = 3

IsExtraKmPart(part) == Len(part) = 1

HasPart(details, Test(_)) == \E k \in 1..Len(details) : Test(details[k])

AllPackagesPriced(tariff) ==
    \A c \in CarTypes : \A k \in 1..Len(tariff.per_cartype[c].packages) :
        tariff.per_cartype[c].packages[k].czk > 0

Claim_C3_SubMinutePrecision ==
    \A k \in 1..Len(segments) :
        segments[k].czk * SecsPerMin
            = (segments[k].to - segments[k].from) * segments[k].tariff.per_minute_czk

\* C4: in every successfully parsed tariff, for every car type, every time
\* of day lies in exactly one per-minute window, and the lookup finds it.
Thm_C4_WindowsTileTheDay ==
    (pc = "probed") =>
        /\ Cardinality(probe.hits) = 1
        /\ Len(probe.found) = 1
        /\ contains_time(probe.found[1], probe.time)

\* C4 witness: a time after midnight is found in the wrapping night window
\* of a parsed tariff, and in no other.
Wit_C4_AfterMidnightInNightWindow ==
    /\ pc = "probed"
    /\ probe.time < DAY_START
    /\ probe.hits = {2}
    /\ probe.found[1].start = NIGHT_START
    /\ probe.found[1].end = DAY_START


\* The first instant strictly after dt whose time of day is t.
NextTimeAfter(dt, t) ==
    IF TimeOf(dt) < t THEN At(dt \div SecsPerDay, t) ELSE At(dt \div SecsPerDay + 1, t)

\* The length of a window, the wrapping one included.
WindowLength(mt) == (mt.end - mt.start + SecsPerDay) % SecsPerDay

\* Whole minutes of a segment, as advance counts them.
SegmentMinutes(seg) == (seg.to - seg.from) \div SecsPerMin

\* The trip of the specification's boundary scenario: 19:50 to 20:10, 0 km,
\* day rate 2.00 and night rate 1.00 (Legend in the Basic table), no package.
BoundaryScenario ==
    /\ car4way.tariff = "Basic"
    /\ car_type = "Legend"
    /\ PackageOption(PerCarTariff, option) = None
    /\ input_data.begin = At(0, TimeConstant(19, 50, 0))
    /\ input_data.end = At(0, TimeConstant(20, 10, 0))
    /\ input_data.km = 0

\* C5: the segments the per-minute loop consumes are consecutive and
\* partition the interval from the starting cursor (trip begin, plus the
\* package duration) to the trip end: each starts where the previous one
\* ended, ends at the earlier of its window's end boundary and the trip end,
\* lies inside the window of the tariff it is charged at, and the last one
\* ends at the trip end; 19:50-20:10 at 2.00 and 1.00 costs 30.00.
Thm_C5_SegmentsPartitionTrip ==
    (pc \in {"loop", "returned"}) =>
        /\ \A k \in 1..Len(segments) :
              LET seg == segments[k]
              IN  /\ seg.from = (IF k = 1 THEN LoopStart ELSE segments[k - 1].to)
                  /\ seg.from < seg.to
                  /\ seg.to = Min2(NextTimeAfter(seg.from, seg.tariff.end), input_data.end)
                  /\ contains_time(seg.tariff, TimeOf(seg.from))
                  /\ contains_time(seg.tariff, TimeOf(seg.to - 1))
                  /\ seg.to - seg.from <= WindowLength(seg.tariff)
                  /\ seg.czk = SegmentMinutes(seg) * seg.tariff.per_minute_czk
        /\ calc.cursor = (IF segments = <<>> THEN LoopStart ELSE segments[Len(segments)].to)
        /\ (pc = "returned") =>
              /\ (segments = <<>>) <=> (input_data.end <= LoopStart)
              /\ (segments # <<>>) => segments[Len(segments)].to = input_data.end
              /\ BoundaryScenario => Returned.price_czk = 30

\* C5 witness: the boundary scenario has been evaluated, in two segments
\* that meet at 20:00.
Wit_C5_SplitAtBoundary ==
    /\ pc = "returned"
    /\ BoundaryScenario
    /\ Len(segments) = 2
    /\ segments[1].to = At(0, NIGHT_START)
    /\ segments[1].czk = 20
    /\ segments[2].czk = 10

\* The package of the evaluation at hand covers the whole trip.
PackageCoversTrip ==
    /\ PackageOption(PerCarTariff, option) # None
    /\ input_data.end - input_data.begin <= PackageOption(PerCarTariff, option)[1].duration
    /\ input_data.km <= PackageOption(PerCarTariff, option)[1].kilometers

\* C6: a trip no longer than a package and no farther than its included
\* distance costs, with that package, exactly the package price: no
\* remaining distance, no per-minute time, no extra component (1 hour /
\* 20 km for 300.00 on 15 km in exactly 1 hour: 300.00).
Thm_C6_CoveredTripCostsPackagePrice ==
    (pc = "returned" /\ PackageCoversTrip) =>
        /\ Returned.price_czk = PackageOption(PerCarTariff, option)[1].czk
        /\ calc.remaining_km = 0
        /\ segments = <<>>
        /\ Len(Returned.details) = 2
        /\ IsPackagePart(Returned.details[2])

\* C6 witness: the 1 hour + 20 km package for 300.00 on a 15 km trip that
\* lasts exactly one hour.
Wit_C6_OneHourPackage ==
    /\ pc = "returned"
    /\ PackageCoversTrip
    /\ input_data.end - input_data.begin = SecsPerHour
    /\ input_data.km = 15
    /\ PackageOption(PerCarTariff, option)[1].duration = SecsPerHour
    /\ PackageOption(PerCarTariff, option)[1].kilometers = 20
    /\ Returned.price_czk = 300

RECURSIVE SumCzk(_)
SumCzk(segs) == IF segs = <<>> THEN 0 ELSE Head(segs).czk + SumCzk(Tail(segs))

\* Distance and price the option at hand includes (0 with no package).
IncludedKm ==
    IF PackageOption(PerCarTariff, option) = None THEN 0
    ELSE PackageOption(PerCarTariff, option)[1].kilometers

OptionCzk ==
    IF PackageOption(PerCarTariff, option) = None THEN 0
    ELSE PackageOption(PerCarTariff, option)[1].czk

\* C7: remaining_km is never negative, the overage added to the price is
\* max(0, distance - included distance) times the per-km price, and the
\* extra-distance component is there exactly when that distance is positive.
Thm_C7_OverageExact ==
    InEvaluation =>
        /\ calc.remaining_km >= 0
        /\ (pc = "returned") =>
              /\ calc.remaining_km = Max0(input_data.km - IncludedKm)
              /\ calc.price_czk = OptionCzk + SumCzk(segments)
                    + Max0(input_data.km - IncludedKm) * TheTariff.per_km_czk
              /\ HasPart(calc.name_parts, IsExtraKmPart)
                    <=> (input_data.km - IncludedKm > 0)

\* C7 witness: a trip farther than the distance its package includes has
\* been evaluated and charged the extra kilometres.
Wit_C7_OverageBeyondPackage ==
    /\ pc = "returned"
    /\ IncludedKm > 0
    /\ input_data.km > IncludedKm
    /\ calc.remaining_km = input_data.km - IncludedKm
    /\ HasPart(calc.name_parts, IsExtraKmPart)
    /\ calc.price_czk = OptionCzk + SumCzk(segments) + calc.remaining_km * TheTariff.per_km_czk

\* Trip ends the model knows, past or present.
KnownEnds == EndValues \cup {b + SecsPerHour : b \in BeginValues}

\* C8: with tariff, car type, option, distance and begin fixed, the price of
\* calculate_for_package does not decrease when the trip end moves later.
Thm_C8_PriceMonotoneInEnd ==
    (pc = "returned") =>
        \A e \in KnownEnds :
            (e <= input_data.end) =>
                PairResult(car_type, option, e).price_czk <= Returned.price_czk

\* C8 witness: an evaluation whose end is off the whole minute and past a
\* window boundary that an earlier end does not reach, at a higher price.
Wit_C8_LaterEndPastBoundary ==
    /\ pc = "returned"
    /\ input_data.end % SecsPerMin # 0
    /\ Len(segments) >= 2
    /\ \E e \in KnownEnds :
          /\ LoopStart < e
          /\ e < segments[1].to
          /\ PairResult(car_type, option, e).price_czk < Returned.price_czk

\* The first of a set of pairs <<position, price>>: least price, and among
\* those the least position.
FirstMin(S) ==
    CHOOSE x \in S : \A y \in S : x[2] < y[2] \/ (x[2] = y[2] /\ x[1] <= y[1])

\* The earliest option of car type c that attains the least price of c.
FirstMinOption(c) == FirstMin({<<i, PairPrice(c, i)>> : i \in OptionsOf(c)})[1]

CarPrice(c) == PairPrice(c, FirstMinOption(c))

\* The earliest eligible car type, in declaration order, of least price.
FirstMinCar == CarType[FirstMin({<<CarOrd(c), CarPrice(c)>> : c \in car4way.car_types})[1]]

\* C9: among car types of equal least price calculate returns the result of
\* the earliest in the order Legend, Fancy, Boss, and within a car type the
\* earliest option in the order packages as in the table, then no package.
Thm_C9_TiesKeepFirst ==
    (pc = "done") =>
        result[1] = PairResult(FirstMinCar, FirstMinOption(FirstMinCar), input_data.end)

\* C9 witness: Legend with its first package is returned while Legend
\* without a package and Fancy cost the same.
Wit_C9_TieBetweenPackageAndNone ==
    /\ pc = "done"
    /\ {"Legend", "Fancy"} \subseteq car4way.car_types
    /\ result[1].details[1] = <<"car", CarName("Legend")>>
    /\ Len(result[1].details) = 2
    /\ IsPackagePart(result[1].details[2])
    /\ PairPrice("Legend", NumOptions(TheTariff.per_cartype["Legend"])) = result[1].price_czk
    /\ Len(PairResult("Legend", NumOptions(TheTariff.per_cartype["Legend"]),
                      input_data.end).details) > 1
    /\ CarPrice("Fancy") = result[1].price_czk

\* The rank of a position within one evaluation of calculate_for_package.
Phase(p) == CASE p = "package" -> 1 [] p = "loop" -> 2 [] p = "returned" -> 3 [] OTHER -> 0

\* C10: every iteration of the per-minute loop moves the cursor strictly
\* forward and not past the trip end, the lookup of the minute tariff never
\* fails, and an evaluation goes package, loop, overage, done without going
\* back.
Thm_C10_LoopAdvances ==
    [][ /\ (pc = "loop" /\ pc' = "loop") =>
              /\ calc.cursor < calc'.cursor
              /\ calc'.cursor <= input_data.end
              /\ input_data.end - calc'.cursor < input_data.end - calc.cursor
        /\ (pc = "loop") => pc' \in {"loop", "returned"}
        /\ (pc = "loop" /\ pc' = "returned") => ~(calc.cursor < input_data.end)
        /\ (pc = "package") => pc' = "loop"
        /\ (InEvaluation /\ pc' \in {"loop", "returned"}) => Phase(pc') >= Phase(pc)
      ]_vars

\* C10 witness: the loop has advanced from a cursor exactly on the 20:00
\* boundary, through the night window across midnight, to 06:00.
Wit_C10_AdvancedAcrossMidnight ==
    /\ pc = "loop"
    /\ \E k \in 1..Len(segments) :
          /\ TimeOf(segments[k].from) = NIGHT_START
          /\ TimeOf(segments[k].to) = DAY_START
          /\ segments[k].to - segments[k].from = WindowLength(segments[k].tariff)


\* The length of the shortest per-minute window of the car type at hand
\* (10 hours, the night window, in every parsed tariff).
MinWindowLength ==
    LET lengths == {WindowLength(PerCarTariff.per_minute[k]) :
                        k \in 1..Len(PerCarTariff.per_minute)}
    IN  CHOOSE l \in lengths : \A m \in lengths : l <= m

\* The duration of the trip, 0 when the end is not after the begin.
TripDuration == Max0(input_data.end - input_data.begin)

\* C11 as claimed: the per-minute loop of one evaluation runs at most
\* (trip end - trip begin) / (length of the shortest window) times.
Orig_C11_IterationsWithinQuotient ==
    (pc \in {"loop", "returned"}) =>
        Len(segments) <= TripDuration \div MinWindowLength

\* C11 amended: the per-minute loop of one evaluation runs at most
\* (trip end - trip begin) / (length of the shortest window), rounded down,
\* plus 2 times, and not at all when the trip end is not after the cursor
\* left by the package; with the package block that makes at most that many
\* steps plus one.
Thm_C11_IterationsBounded ==
    (pc \in {"loop", "returned"}) =>
        /\ MinWindowLength = 10 * SecsPerHour
        /\ Len(segments) <= TripDuration \div MinWindowLength + 2
        /\ (input_data.end <= LoopStart) => segments = <<>>

\* C11 witness: a trip of a little more than ten hours, from before 20:00
\* to after 06:00, has been evaluated in three iterations, as many as the
\* amended bound allows.
Wit_C11_ThreeIterationsInTenHours ==
    /\ pc = "returned"
    /\ TripDuration \div MinWindowLength = 1
    /\ Len(segments) = 3
    /\ segments[2].to - segments[2].from = MinWindowLength

\* C12: from Car4way::default(), after any sequence of car-type checkbox
\* events, the set of car types Tariff::calculate is called with is not
\* empty, so the calculation never aborts on 'car types are not empty'.
Claim_C12_CarTypesNeverEmpty ==
    /\ (pc = "render") => car4way.car_types # {}
    /\ pc # "panic"

=============================================================================
